---- MODULE Spec2Model ----
(***************************************************************************)
(* Book management service (src/main.py): five FastAPI routes over one     *)
(* `books` table reached through SQLAlchemy sessions.                      *)
(*                                                                         *)
(* The table is a set of rows.  Every route handler runs on a worker thread*)
(* of the serving framework; a handler is split at the points where it     *)
(* talks to the database (query, commit, refresh), because these are the   *)
(* points at which two requests can interleave.  A commit (flush of the    *)
(* pending INSERT / UPDATE / DELETE followed by COMMIT) is one atomic step:*)
(* the storage engine serialises conflicting writes on row and index locks.*)
(* The engine is MySQL/InnoDB in its default (strict) sql_mode: a value    *)
(* that does not fit its column is an error, not a truncation.             *)
(***************************************************************************)
EXTENDS Integers, Sequences, FiniteSets, TLC

VARIABLES
    books,      \* the rows of table `books`
    autoInc,    \* the table's AUTO_INCREMENT counter: the next id handed out
    pc,         \* pc[w]: where worker w is in its request
    req,        \* req[w]: the request worker w is handling
    db,         \* db[w]: the session get_db gave to worker w's request
    loaded,     \* loaded[w]: db_book, the session's copy of the row
    resp,       \* resp[w]: the response of worker w's request
    opened,     \* number of sessions SessionLocal() has created
    open,       \* the sessions that are not closed
    lastWrite,  \* history: per id, the last create/update answered with 200: the
                \* object it returned, and whether its body changed every field
    deleted,    \* history: the ids delete_book has answered with 200
    fresh,      \* history: fresh[w], the isbn of w's create was not stored when it
                \* arrived and no update or delete has been committed since
    lastClosed  \* history: the status of the request whose session was closed last

hist == <<lastWrite, deleted, fresh, lastClosed>>
vars == <<books, autoInc, pc, req, db, loaded, resp, opened, open, hist>>

(* Bounds *)
MaxId == 2          \* ids the table hands out: 1..MaxId
MaxRequests == 3    \* requests (sessions) per run

(* Column widths of the table *)
TitleLen == 255
AuthorLen == 255
GenreLen == 100
IsbnLen == 13

Workers == {1, 2}
Ids == 1..MaxId
Fields == {"title", "author", "published_year", "genre", "isbn"}

RECURSIVE Pad(_, _)
Pad(c, n) == IF n = 0 THEN "" ELSE c \o Pad(c, n - 1)

Isbn1 == Pad("1", IsbnLen)
Isbn2 == Pad("2", IsbnLen)
IsbnTooLong == Pad("9", IsbnLen + 1)

(* BookCreate: the request bodies the validator accepts (any text, any int). *)
BookA == [title |-> "A", author |-> "B", published_year |-> 2000,
          genre |-> "Fiction", isbn |-> Isbn1]
BookCreate ==
    { BookA,
      [BookA EXCEPT !.title = "A2"],
      [BookA EXCEPT !.author = "B2"],
      [title |-> "A2", author |-> "B2", published_year |-> 2001,
       genre |-> "Drama", isbn |-> Isbn2],
      [BookA EXCEPT !.isbn = IsbnTooLong] }

NoBody == [title |-> "", author |-> "", published_year |-> 0, genre |-> "", isbn |-> ""]
NoBook == [id |-> 0, title |-> "", author |-> "", published_year |-> 0,
           genre |-> "", isbn |-> ""]

(* Book(...): the row built from a body and an id *)
Book(id, b) == [id |-> id, title |-> b.title, author |-> b.author,
                published_year |-> b.published_year, genre |-> b.genre,
                isbn |-> b.isbn]

(* BookOut: the response shape read off a row (orm_mode) *)
BookOut(r) == [id |-> r.id, title |-> r.title, author |-> r.author,
               published_year |-> r.published_year, genre |-> r.genre,
               isbn |-> r.isbn]

NoResp == [status |-> 0, detail |-> "", book |-> NoBook, list |-> <<>>]
Ok(r) == [status |-> 200, detail |-> "", book |-> BookOut(r), list |-> <<>>]
OkList(s) == [status |-> 200, detail |-> "", book |-> NoBook, list |-> s]
NotFound == [status |-> 404, detail |-> "Book not found", book |-> NoBook, list |-> <<>>]
ServerError(e) == [status |-> 500, detail |-> e, book |-> NoBook, list |-> <<>>]
Deleted(id) == [status |-> 200, detail |-> "Book with ID deleted",
                book |-> [NoBook EXCEPT !.id = id], list |-> <<>>]

NoRequest == [op |-> "none", book_id |-> 0, book |-> NoBody]
Requests ==
    {[op |-> "get_books", book_id |-> 0, book |-> NoBody]}
    \cup {[op |-> o, book_id |-> i, book |-> NoBody] :
            o \in {"get_book", "delete_book"}, i \in Ids}
    \cup {[op |-> "create_book", book_id |-> 0, book |-> b] : b \in BookCreate}
    \cup {[op |-> "update_book", book_id |-> i, book |-> b] :
            i \in Ids, b \in BookCreate}

NoWrite == [op |-> "none", out |-> NoBook, allNew |-> FALSE]

(* ---------------------------------------------------------------------- *)
(* The table                                                               *)
(* ---------------------------------------------------------------------- *)

(* db.query(Book).filter(Book.id == book_id).first() *)
First(book_id) ==
    IF \E r \in books : r.id = book_id
    THEN CHOOSE r \in books : r.id = book_id
    ELSE NoBook

(* db.query(Book).all(): the rows in primary-key order *)
RECURSIVE InIdOrder(_)
InIdOrder(rows) ==
    IF rows = {} THEN <<>>
    ELSE LET r == CHOOSE x \in rows : \A y \in rows : x.id <= y.id
         IN <<BookOut(r)>> \o InIdOrder(rows \ {r})

(* the declared column widths: String(255), String(255), String(100), String(13) *)
Fits(r) ==
    /\ Len(r.title) <= TitleLen
    /\ Len(r.author) <= AuthorLen
    /\ Len(r.genre) <= GenreLen
    /\ Len(r.isbn) <= IsbnLen

(* the column declared without unique=True *)
IsbnUnchecked(r) == TRUE

(* unique=True on isbn: no other row holds r's isbn *)
IsbnFree(r) == \A x \in books : x.id # r.id => x.isbn # r.isbn

(* the engine checking the widths only *)
StorageErrorWidthsOnly(r) == IF ~Fits(r) THEN "DataError" ELSE ""

(* the error the engine raises when asked to store row r ("": none) *)
StorageError(r) ==
    IF ~Fits(r) THEN "DataError"
    ELSE IF ~IsbnFree(r) THEN "IntegrityError"
    ELSE ""

(* primary_key=True on id: the id the engine gives a new row *)
NewId == autoInc

(* a counter that does not advance *)
NextAutoIncStuck(id) == id

(* the counter after an INSERT that stored a row with the given id *)
NextAutoInc(id) == id + 1

Init ==
    /\ books = {}
    /\ autoInc = 1
    /\ pc = [w \in Workers |-> "idle"]
    /\ req = [w \in Workers |-> NoRequest]
    /\ db = [w \in Workers |-> 0]
    /\ loaded = [w \in Workers |-> NoBook]
    /\ resp = [w \in Workers |-> NoResp]
    /\ opened = 0
    /\ open = {}
    /\ lastWrite = [i \in Ids |-> NoWrite]
    /\ deleted = {}
    /\ fresh = [w \in Workers |-> FALSE]
    /\ lastClosed = 0

(* ---------------------------------------------------------------------- *)
(* get_db: one session per request, closed in the finally clause           *)
(* ---------------------------------------------------------------------- *)

(* creates that have been accepted and have not reached their INSERT yet *)
PendingCreates == {v \in Workers : req[v].op = "create_book" /\ pc[v] = "handler"}

(* db = SessionLocal(): a session no request has had *)
SessionLocal == opened + 1

(* db = SessionLocal(); yield db -- the framework then calls the handler of r
   on an idle worker thread (the threads are alike: the first idle one) *)
get_db(w, r) ==
    /\ pc[w] = "idle"
    /\ \A v \in Workers : v < w => pc[v] # "idle"
    /\ opened < MaxRequests
    /\ r.op = "create_book" => autoInc + Cardinality(PendingCreates) <= MaxId
    /\ opened' = opened + 1
    /\ db' = [db EXCEPT ![w] = SessionLocal]
    /\ open' = open \cup {SessionLocal}
    /\ req' = [req EXCEPT ![w] = r]
    /\ fresh' = [fresh EXCEPT ![w] =
                   r.op = "create_book" /\ \A x \in books : x.isbn # r.book.isbn]
    /\ pc' = [pc EXCEPT ![w] = "handler"]
    /\ UNCHANGED <<books, autoInc, loaded, resp, lastWrite, deleted, lastClosed>>

(* close() reached only when the handler returns normally (no try/finally) *)
ClosedOnReturn(w) == IF resp[w].status = 200 THEN open \ {db[w]} ELSE open

(* the sessions left open once the request of w is over; the finally clause
   runs whether the handler returned or raised *)
Closed(w) == open \ {db[w]}

(* finally: db.close(); the request is over and its objects are dropped *)
get_db_close(w) ==
    /\ pc[w] = "exit"
    /\ open' = Closed(w)
    /\ lastClosed' = IF resp[w].status = 500 THEN 500 ELSE lastClosed
    /\ pc' = [pc EXCEPT ![w] = "idle"]
    /\ req' = [req EXCEPT ![w] = NoRequest]
    /\ db' = [db EXCEPT ![w] = 0]
    /\ loaded' = [loaded EXCEPT ![w] = NoBook]
    /\ resp' = [resp EXCEPT ![w] = NoResp]
    /\ fresh' = [fresh EXCEPT ![w] = FALSE]
    /\ UNCHANGED <<books, autoInc, opened, lastWrite, deleted>>

(* the handler of w returns or raises with response x *)
Respond(w, x) ==
    /\ resp' = [resp EXCEPT ![w] = x]
    /\ pc' = [pc EXCEPT ![w] = "exit"]

(* the check left out *)
NeverMissing(book) == FALSE

(* if not book: *)
Missing(book) == book = NoBook

(* ---------------------------------------------------------------------- *)
(* GET /books and GET /books/{book_id}                                     *)
(* ---------------------------------------------------------------------- *)

get_books(w) ==
    /\ pc[w] = "handler" /\ req[w].op = "get_books"
    /\ Respond(w, OkList(InIdOrder(books)))
    /\ UNCHANGED <<books, autoInc, req, db, loaded, opened, open, hist>>

get_book(w) ==
    /\ pc[w] = "handler" /\ req[w].op = "get_book"
    /\ LET book == First(req[w].book_id)
       IN /\ loaded' = [loaded EXCEPT ![w] = book]
          /\ IF Missing(book) THEN Respond(w, NotFound) ELSE Respond(w, Ok(book))
    /\ UNCHANGED <<books, autoInc, req, db, opened, open, hist>>

(* ---------------------------------------------------------------------- *)
(* POST /books                                                             *)
(* ---------------------------------------------------------------------- *)

(* the constructor call without its genre argument *)
NewBookNoGenre(b) == [Book(NewId, b) EXCEPT !.genre = ""]

(* db_book = Book(title=..., ..., isbn=...) with the id the INSERT assigns *)
NewBook(b) == Book(NewId, b)

(* db.add(db_book); db.commit(): INSERT and COMMIT *)
create_book_commit(w) ==
    /\ pc[w] = "handler" /\ req[w].op = "create_book"
    /\ LET db_book == NewBook(req[w].book)
           err == StorageError(db_book)
       IN IF err = "DataError"
          THEN \* value too long for its column; the row is not stored
               /\ Respond(w, ServerError(err))
               /\ UNCHANGED <<books, autoInc, loaded, lastWrite>>
          ELSE IF err = "IntegrityError"
          THEN \* duplicate entry for the unique key; not caught by the handler.
               \* Whether the failed INSERT uses up the id is up to the engine.
               /\ Respond(w, ServerError(err))
               /\ autoInc' \in {autoInc, NextAutoInc(db_book.id)}
               /\ UNCHANGED <<books, loaded, lastWrite>>
          ELSE /\ books' = books \cup {db_book}
               /\ autoInc' = NextAutoInc(db_book.id)
               /\ loaded' = [loaded EXCEPT ![w] = db_book]
               /\ lastWrite' = [lastWrite EXCEPT ![db_book.id] = NoWrite]
               /\ pc' = [pc EXCEPT ![w] = "refresh"]
               /\ UNCHANGED resp
    /\ UNCHANGED <<req, db, opened, open, deleted, fresh, lastClosed>>

(* db.refresh(db_book); return db_book *)
Refresh(w, op) ==
    /\ pc[w] = "refresh" /\ req[w].op = op
    /\ LET row == First(loaded[w].id)
       IN IF row = NoBook
          THEN \* InvalidRequestError: the row is gone, the instance cannot be refreshed
               /\ Respond(w, ServerError("InvalidRequestError"))
               /\ UNCHANGED <<loaded, lastWrite>>
          ELSE /\ Respond(w, Ok(row))
               /\ loaded' = [loaded EXCEPT ![w] = row]
               /\ lastWrite' = [lastWrite EXCEPT ![row.id] =
                                  [op |-> op, out |-> BookOut(row),
                                   allNew |-> \A f \in Fields :
                                                 req[w].book[f] # loaded[w][f]]]
    /\ UNCHANGED <<books, autoInc, req, db, opened, open, deleted, fresh, lastClosed>>

create_book_refresh(w) == Refresh(w, "create_book")

(* ---------------------------------------------------------------------- *)
(* PUT /books/{book_id}                                                    *)
(* ---------------------------------------------------------------------- *)

(* db_book = db.query(Book).filter(Book.id == book_id).first(); 404 if none *)
Query(w, op) ==
    /\ pc[w] = "handler" /\ req[w].op = op
    /\ LET db_book == First(req[w].book_id)
       IN /\ loaded' = [loaded EXCEPT ![w] = db_book]
          /\ IF Missing(db_book)
             THEN Respond(w, NotFound)
             ELSE /\ pc' = [pc EXCEPT ![w] = "commit"]
                  /\ UNCHANGED resp
    /\ UNCHANGED <<books, autoInc, req, db, opened, open, hist>>

update_book_query(w) == Query(w, "update_book")

(* the assignment of isbn left out *)
AssignedNoIsbn(db_book, updated_book) ==
    {f \in Fields \ {"isbn"} : updated_book[f] # db_book[f]}

(* db_book.title = updated_book.title ... db_book.isbn = updated_book.isbn:
   the attributes of db_book whose value the five assignments change; these
   are the columns the session's flush puts in the UPDATE *)
Assigned(db_book, updated_book) == {f \in Fields : updated_book[f] # db_book[f]}

(* an UPDATE that writes the title alone *)
UpdatedTitleOnly(row, cols, updated_book) ==
    [f \in DOMAIN row |-> IF f \in cols \cap {"title"} THEN updated_book[f] ELSE row[f]]

(* UPDATE books SET <cols> WHERE id = ...: the row after the statement *)
Updated(row, cols, updated_book) ==
    [f \in DOMAIN row |-> IF f \in cols THEN updated_book[f] ELSE row[f]]

(* db.commit(): UPDATE (when an attribute changed) and COMMIT *)
update_book_commit(w) ==
    /\ pc[w] = "commit" /\ req[w].op = "update_book"
    /\ LET cols == Assigned(loaded[w], req[w].book)
           row == First(loaded[w].id)
           new == Updated(row, cols, req[w].book)
       IN IF cols = {}
          THEN \* nothing to flush
               /\ pc' = [pc EXCEPT ![w] = "refresh"]
               /\ UNCHANGED <<books, resp, lastWrite>>
          ELSE IF row = NoBook
          THEN \* StaleDataError: the UPDATE matched no row
               /\ Respond(w, ServerError("StaleDataError"))
               /\ UNCHANGED <<books, lastWrite>>
          ELSE IF StorageError(new) # ""
          THEN /\ Respond(w, ServerError(StorageError(new)))
               /\ UNCHANGED <<books, lastWrite>>
          ELSE /\ books' = (books \ {row}) \cup {new}
               /\ lastWrite' = [lastWrite EXCEPT ![row.id] = NoWrite]
               /\ pc' = [pc EXCEPT ![w] = "refresh"]
               /\ UNCHANGED resp
    /\ fresh' = IF books' = books THEN fresh ELSE [v \in Workers |-> FALSE]
    /\ UNCHANGED <<autoInc, req, db, loaded, opened, open, deleted, lastClosed>>

update_book_refresh(w) == Refresh(w, "update_book")

(* ---------------------------------------------------------------------- *)
(* DELETE /books/{book_id}                                                 *)
(* ---------------------------------------------------------------------- *)

delete_book_query(w) == Query(w, "delete_book")

(* a delete that is never committed *)
RemoveNothing(book_id) == books

(* DELETE FROM books WHERE id = ...: the table after the statement *)
Remove(book_id) == {r \in books : r.id # book_id}

(* db.delete(db_book); db.commit(); return the message.  A DELETE that
   matches no row only warns, so the handler answers 200 then as well. *)
delete_book_commit(w) ==
    /\ pc[w] = "commit" /\ req[w].op = "delete_book"
    /\ books' = Remove(loaded[w].id)
    /\ deleted' = deleted \cup {loaded[w].id}
    /\ lastWrite' = [lastWrite EXCEPT ![loaded[w].id] = NoWrite]
    /\ fresh' = [v \in Workers |-> FALSE]
    /\ Respond(w, Deleted(req[w].book_id))
    /\ UNCHANGED <<autoInc, req, db, loaded, opened, open, lastClosed>>

(* ---------------------------------------------------------------------- *)
(* Specifications                                                          *)
(* ---------------------------------------------------------------------- *)

Step(w) ==
    \/ get_books(w)
    \/ get_book(w)
    \/ create_book_commit(w)
    \/ create_book_refresh(w)
    \/ update_book_query(w)
    \/ update_book_commit(w)
    \/ update_book_refresh(w)
    \/ delete_book_query(w)
    \/ delete_book_commit(w)
    \/ get_db_close(w)

(* the framework dispatches requests to its worker threads as they arrive *)
Dispatch == \E w \in Workers, r \in Requests : get_db(w, r)

(* requests arriving one after another: none starts before the last one ended *)
DispatchSerial ==
    /\ \A v \in Workers : pc[v] = "idle"
    /\ \E w \in Workers, r \in Requests : get_db(w, r)

Next == Dispatch \/ \E w \in Workers : Step(w)
NextSerial == DispatchSerial \/ \E w \in Workers : Step(w)

Spec == Init /\ [][Next]_vars
SerialSpec == Init /\ [][NextSerial]_vars

(* ---------------------------------------------------------------------- *)
(* Properties                                                              *)
(* ---------------------------------------------------------------------- *)

Done(w, op) == pc[w] = "exit" /\ req[w].op = op
StoredIds == {x.id : x \in books}

(* C1: in every reachable state no two stored books have the same isbn and
   no two stored books have the same id. *)
C1_UniqueIsbnAndId ==
    \A r1, r2 \in books : (r1.id = r2.id \/ r1.isbn = r2.isbn) => r1 = r2

(* two books are stored and an update asking for the other book's isbn failed *)
C1_Witness ==
    /\ Cardinality(books) = 2
    /\ \E w \in Workers : Done(w, "update_book") /\ resp[w].detail = "IntegrityError"

(* C2: a create_book whose isbn is the isbn of a stored book fails with an
   error, adds no record and leaves every stored book as it was. *)
C2_DuplicateCreateFails ==
    [][\A w \in Workers :
         (create_book_commit(w) /\ \E x \in books : x.isbn = req[w].book.isbn)
         => /\ pc'[w] = "exit"
            /\ resp'[w].status = 500
            /\ books' = books]_vars

(* a create has failed on the isbn of a book that is still stored *)
C2_Witness ==
    \E w \in Workers :
        /\ Done(w, "create_book") /\ resp[w].detail = "IntegrityError"
        /\ \E x \in books : x.isbn = req[w].book.isbn

(* C3 as stated: a PUT with a valid body ends in one of two ways, 404 when
   no stored book has the id and otherwise 200 with the updated object,
   whatever the isbn of the body is. *)
C3_UpdateAlwaysSucceeds ==
    \A w \in Workers :
        Done(w, "update_book") =>
            IF loaded[w] = NoBook
            THEN resp[w] = NotFound
            ELSE resp[w] = Ok(Book(req[w].book_id, req[w].book))

(* C3 amended: a PUT with a valid body, handled with no other request in
   flight, ends in one of three ways: 404 when no stored book has the id; a
   storage error (500) that leaves the row as it was when the table rejects
   the new row, which it does when the body's isbn belongs to another stored
   book or a text value is longer than its column; 200 with the updated
   object, now the stored row, otherwise. *)
C3_UpdateOutcomes ==
    \A w \in Workers :
        Done(w, "update_book") =>
            LET new == Book(req[w].book_id, req[w].book)
            IN IF req[w].book_id \notin StoredIds
               THEN resp[w] = NotFound
               ELSE IF ~Fits(new) \/ \E x \in books : x.id # new.id /\ x.isbn = new.isbn
               THEN /\ resp[w].status = 500
                    /\ resp[w].detail \in {"DataError", "IntegrityError"}
                    /\ loaded[w] \in books
               ELSE /\ resp[w] = Ok(new)
                    /\ new \in books

(* an update asking for the isbn of another stored book has ended *)
C3_Witness ==
    \E w \in Workers :
        /\ Done(w, "update_book")
        /\ req[w].book_id \in StoredIds
        /\ \E x \in books : x.id # req[w].book_id /\ x.isbn = req[w].book.isbn

(* C4: update_book answers 200 for an id with body B by returning the id with
   the five fields of B, and while no other write to that id follows,
   get_book for the id answers with that same object: every field is the
   value of B and none keeps its old value. *)
C4_UpdateThenGet ==
    \A w \in Workers :
        /\ (Done(w, "update_book") /\ resp[w].status = 200)
           => /\ resp[w].book = Book(req[w].book_id, req[w].book)
              /\ lastWrite[req[w].book_id].out = resp[w].book
        /\ (Done(w, "get_book") /\ lastWrite[req[w].book_id].op = "update_book")
           => resp[w] = Ok(lastWrite[req[w].book_id].out)

(* a get has answered for a book whose last write was an update that changed
   every one of its five fields *)
C4_Witness ==
    \E w \in Workers :
        /\ Done(w, "get_book") /\ resp[w].status = 200
        /\ LET lw == lastWrite[req[w].book_id]
           IN /\ lw.op = "update_book"
              /\ lw.allNew

(* C5: get_book, update_book and delete_book called with an id no stored book
   has answer 404 "Book not found", nothing else, and leave the table as it
   was. *)
C5_NotFound ==
    [][\A w \in Workers :
         ((get_book(w) \/ update_book_query(w) \/ delete_book_query(w))
          /\ req[w].book_id \notin StoredIds)
         => /\ pc'[w] = "exit"
            /\ resp'[w] = NotFound
            /\ books' = books]_vars

(* an update or a delete has answered 404 while the table holds a book *)
C5_Witness ==
    \E w \in Workers :
        /\ Done(w, "update_book") \/ Done(w, "delete_book")
        /\ resp[w] = NotFound
        /\ books # {}

(* C6: once delete_book has answered 200 for an id the record is gone: no
   stored book has the id, a get_book or delete_book that looks the id up
   afterwards answers 404, and the delete leaves every other book as it was. *)
C6_DeletedIsGone ==
    /\ [](deleted \cap StoredIds = {})
    /\ [][\A w \in Workers :
            /\ ((get_book(w) \/ delete_book_query(w)) /\ req[w].book_id \in deleted)
               => resp'[w] = NotFound
            /\ delete_book_commit(w)
               => books' = {x \in books : x.id # req[w].book_id}]_vars

(* a second delete of a deleted id has answered 404 *)
C6_Witness ==
    \E w \in Workers :
        /\ Done(w, "delete_book") /\ resp[w] = NotFound
        /\ req[w].book_id \in deleted

(* C7: a create_book that answers 200 for body B returns the five fields of B
   with an id no stored book had, and a get_book for that id, with no write
   to it in between, returns the object create_book returned. *)
C7_CreateThenGet ==
    /\ [][\A w \in Workers :
            (create_book_commit(w) /\ pc'[w] = "refresh")
            => /\ loaded'[w].id \notin StoredIds \cup deleted
               /\ loaded'[w].id > 0]_vars
    /\ [](\A w \in Workers :
            /\ (Done(w, "create_book") /\ resp[w].status = 200)
               => resp[w].book = Book(loaded[w].id, req[w].book)
            /\ (Done(w, "get_book") /\ lastWrite[req[w].book_id].op = "create_book")
               => resp[w] = Ok(lastWrite[req[w].book_id].out))

(* a get has answered for a book that was created and not written since *)
C7_Witness ==
    \E w \in Workers :
        /\ Done(w, "get_book") /\ resp[w].status = 200
        /\ lastWrite[req[w].book_id].op = "create_book"

(* C8: every request has a session of its own, open while the request runs
   and closed when it has ended, however it ended (200, 404, or an error
   raised by commit); no session outlives its request and no two requests
   have the same session. *)
InFlight == {w \in Workers : pc[w] # "idle"}

C8_SessionPerRequest ==
    /\ [](/\ open = {db[w] : w \in InFlight}
          /\ \A w, v \in InFlight : db[w] = db[v] => w = v)
    /\ [][\A w \in Workers :
            (pc[w] = "idle" /\ pc'[w] # "idle") => db'[w] \notin 0..opened]_vars

(* a request that ended in a storage error has had its session closed, and
   no session is open *)
C8_Witness == lastClosed = 500 /\ open = {} /\ InFlight = {}

(* C9 as stated: of two concurrent create_book requests carrying the same
   isbn, not stored when they arrived (and no other write since), exactly one
   answers 200 and the table holds exactly one record with that isbn. *)
SameIsbnCreates(w, v) ==
    /\ w # v
    /\ Done(w, "create_book") /\ Done(v, "create_book")
    /\ req[w].book.isbn = req[v].book.isbn
    /\ fresh[w] /\ fresh[v]

ExactlyOneStored(w, v) ==
    /\ Cardinality({u \in {w, v} : resp[u].status = 200}) = 1
    /\ Cardinality({u \in {w, v} : resp[u].status = 500}) = 1
    /\ Cardinality({x \in books : x.isbn = req[w].book.isbn}) = 1
    /\ \E u \in {w, v} : resp[u].status = 200 /\ resp[u].book \in books

C9_ExactlyOneCreate ==
    \A w, v \in Workers : SameIsbnCreates(w, v) => ExactlyOneStored(w, v)

(* C9 amended: of two concurrent create_book requests carrying the same isbn,
   not stored when they arrived, with text values no longer than their
   columns, exactly one answers 200 and the other fails, and the table holds
   exactly one record with that isbn, never two. *)
C9_ExactlyOneFittingCreate ==
    /\ \A w, v \in Workers :
          (SameIsbnCreates(w, v) /\ Fits(NewBook(req[w].book)) /\ Fits(NewBook(req[v].book)))
          => ExactlyOneStored(w, v)
    /\ \A w \in Workers :
          req[w].op = "create_book"
          => Cardinality({x \in books : x.isbn = req[w].book.isbn}) <= 1

(* the two creates have ended, one with 200 and one with the duplicate error *)
C9_Witness ==
    \E w, v \in Workers :
        /\ SameIsbnCreates(w, v)
        /\ resp[w].status = 200 /\ resp[v].detail = "IntegrityError"

(* C10: when two update_book requests for the same id run concurrently and
   both answer 200, the stored row has the five fields of the body of one of
   the two, never fields of both or fields of the old row. *)
C10_NoMixedRow ==
    \A w, v \in Workers :
        (/\ w # v
         /\ Done(w, "update_book") /\ Done(v, "update_book")
         /\ req[w].book_id = req[v].book_id
         /\ resp[w].status = 200 /\ resp[v].status = 200)
        => \E u \in {w, v} : Book(req[u].book_id, req[u].book) \in books
====
